---- MODULE Spec2Model ----
(***************************************************************************)
(* Settlement engine of the side-bets tracker: computeDeltas of            *)
(* src/src/App.tsx and of src/unnamed/part_000.                            *)
(*                                                                         *)
(* Representation.                                                         *)
(*  - Slot, round and column indices are 1-based here (0-based in the      *)
(*    source).                                                             *)
(*  - A field of type (number | "") is a sequence: << >> is the empty      *)
(*    string, <<n>> the number n.                                          *)
(*  - A JS number is an integer, or one of the two values Infinity and NaN *)
(*    (see JsLess, MathMin, IsFinite for their arithmetic).                *)
(*  - A name is a sequence of one-character strings.                       *)
(*  - Money is an integer number of HALF wager steps (Money(w) is the      *)
(*    wager w): the only ratios L / W and W / L the code forms with five   *)
(*    slots have denominator 1 or 2, so every amount is represented        *)
(*    exactly, as it is in the source's binary floating point.  Wagers are *)
(*    whole steps; a wager that binary floating point cannot represent     *)
(*    (0.1) is outside the model.                                          *)
(***************************************************************************)
EXTENDS Integers, Sequences, FiniteSets, TLC

VARIABLES
    variant,    \* which of the two computeDeltas is running
    players,    \* the roster: one name per slot
    settings,   \* the Settings record
    nHoles,     \* holes.length
    hole,       \* the round processed last, holes[hi - 1] of the source
    hi,         \* the number of rounds processed
    carry,      \* the carry counter
    carryIn,    \* the carry counter on entry to the round processed last
    kind,       \* history: the kind of the round processed last, by the definitions
                \* of the specification (KindOfRound): "decisive", "tie" or "void"
    runIn,      \* history: the kinds of the rounds between the last decisive round
                \* (or the start) and the round processed last
    roundStake, \* the stake computed in the round processed last: <<stake>>, or << >>
    deltas,     \* the delta matrix
    totals,     \* the totals vector, << >> until it is computed
    pc,         \* "loop" while rounds are processed, then "done"
    holes,      \* the round list the caller holds and passes to each invocation
                \* (SpecCalls); << >> where the rounds are drawn as the loop reaches them
    calls,      \* history: the invocations that have returned to the caller, each with
                \* what it was given and what it returned
    edits,      \* history: the edits made in the UI (SpecUI), each with the roster slot
                \* of the player whose row or name was edited, the field and the value
    carries     \* history: the carry counter after each round processed so far

vars == <<variant, players, settings, nHoles, hole, hi, carry, carryIn, kind,
          runIn, roundStake, deltas, totals, pc, holes, calls, edits, carries>>

----------------------------------------------------------------------------
(* Bounds of the model *)

\* longest round list explored by Spec
MaxHoles == 3
\* largest wager, in wager steps
MaxWager == 2
\* longest run of lead-in rounds before the last round in SpecRound
MaxLeadIn == 1
\* invocations of computeDeltas in SpecCalls
MaxCalls == 3
\* edits made in the UI in SpecUI
MaxEdits == 3

(* Program constants *)

\* roster slots of the UI
NumSlots == 5
\* default par
DefaultPar == 4
\* smallest valid par
MinPar == 3
\* Infinity: larger than every recorded value
Infinity == 1000000
\* NaN: the result of Number(undefined); never equal to, below or above anything
NaN == 0 - 1000000

----------------------------------------------------------------------------
(* JS values *)

Money(w) == 2 * w

JsLess(a, b) == a # NaN /\ b # NaN /\ a < b

JsStrictEq(a, b) == a # NaN /\ b # NaN /\ a = b

MathMin(a, b) == IF a = NaN \/ b = NaN THEN NaN ELSE IF a < b THEN a ELSE b

\* mutant: !Number.isNaN in place of Number.isFinite
IsNotNaN(x) == x # NaN

IsFinite(x) == x # NaN /\ x # Infinity

Range(s) == {s[i] : i \in 1..Len(s)}

\* p.trim(): strip the leading and the trailing blanks
RECURSIVE TrimLeft(_)
TrimLeft(s) == IF s # << >> /\ s[1] = " " THEN TrimLeft(Tail(s)) ELSE s

RECURSIVE TrimRight(_)
TrimRight(s) ==
    IF s # << >> /\ s[Len(s)] = " " THEN TrimRight(SubSeq(s, 1, Len(s) - 1)) ELSE s

Trim(s) == TrimRight(TrimLeft(s))

\* hole.teamPicks[oi]: undefined beyond the end of the array
PickAt(h, oi) == IF oi <= Len(h.teamPicks) THEN h.teamPicks[oi] ELSE "undefined"

\* s !== "" for s = hole.scores[oi] (undefined is not the empty string)
HasScore(h, oi) == oi > Len(h.scores) \/ h.scores[oi] # << >>

\* Number(s) for s = hole.scores[oi], s not the empty string
NumberOfScore(h, oi) == IF oi > Len(h.scores) THEN NaN ELSE h.scores[oi][1]

----------------------------------------------------------------------------
(* computeDeltas of src/src/App.tsx *)

ActiveIdx(ps) == SelectSeq([i \in 1..Len(ps) |-> i], LAMBDA i : Trim(ps[i]) # << >>)

\* mutant: a row has one entry per roster slot of the UI, active or not
ZeroRowOfSlots(n) == [j \in 1..NumSlots |-> 0]

ZeroRow(n) == [j \in 1..n |-> 0]

ParOf(pRaw) == IF pRaw # << >> /\ pRaw[1] >= MinPar THEN pRaw[1] ELSE DefaultPar

\* mutant: the assignment is read at the column, not at the slot of the column
TeamByColumn(h, activeIdx, t) ==
    SelectSeq([aj \in 1..Len(activeIdx) |-> aj], LAMBDA aj : PickAt(h, aj) = t)

Team(h, activeIdx, t) ==
    SelectSeq([aj \in 1..Len(activeIdx) |-> aj], LAMBDA aj : PickAt(h, activeIdx[aj]) = t)

\* mutant: the birdie test comes first and takes every value below par
StakeBirdieFirst(s, c, par, winningBest) ==
    LET baseUnits == 1 + (IF s.carryOver THEN c ELSE 0)
        rel == winningBest - par
        mult == IF s.birdieDouble /\ rel <= 0 - 1 THEN 2
                ELSE IF s.eagleTriple /\ rel <= 0 - 2 THEN 3
                ELSE 1
    IN  s.wager * baseUnits * mult

\* mutant: the carry enters the stake whether carry-over is on or off
StakeAnyCarry(s, c, par, winningBest) ==
    LET baseUnits == 1 + c
        rel == winningBest - par
        mult == IF s.eagleTriple /\ rel <= 0 - 2 THEN 3
                ELSE IF s.birdieDouble /\ rel = 0 - 1 THEN 2
                ELSE 1
    IN  s.wager * baseUnits * mult

StakeForScore(s, c, par, winningBest) ==
    LET baseUnits == 1 + (IF s.carryOver THEN c ELSE 0)
        rel == winningBest - par
        mult == IF s.eagleTriple /\ rel <= 0 - 2 THEN 3
                ELSE IF s.birdieDouble /\ rel = 0 - 1 THEN 2
                ELSE 1
    IN  s.wager * baseUnits * mult

\* mutant: a team is scored by the sum of its recorded values, not by its best
RECURSIVE TeamSumFrom(_, _, _, _)
TeamSumFrom(h, activeIdx, team, acc) ==
    IF team = << >> THEN acc
    ELSE LET oi == activeIdx[team[1]]
             v == IF HasScore(h, oi) THEN NumberOfScore(h, oi) ELSE 0
         IN  TeamSumFrom(h, activeIdx, Tail(team),
                         IF ~HasScore(h, oi) THEN acc
                         ELSE IF acc = Infinity THEN v ELSE acc + v)

TeamSum(h, activeIdx, team) == TeamSumFrom(h, activeIdx, team, Infinity)

RECURSIVE TeamBestFrom(_, _, _, _)
TeamBestFrom(h, activeIdx, team, best) ==
    IF team = << >> THEN best
    ELSE LET oi == activeIdx[team[1]]
             nb == IF HasScore(h, oi) /\ JsLess(NumberOfScore(h, oi), best)
                   THEN NumberOfScore(h, oi) ELSE best
         IN  TeamBestFrom(h, activeIdx, Tail(team), nb)

\* mutant: the test s !== "" is missing and Number("") = 0 enters the comparison
TeamBestBlankZero(h, activeIdx, team) ==
    IF \E k \in 1..Len(team) : ~HasScore(h, activeIdx[team[k]]) THEN 0
    ELSE TeamBestFrom(h, activeIdx, team, Infinity)

TeamBest(h, activeIdx, team) == TeamBestFrom(h, activeIdx, team, Infinity)

RECURSIVE IndividualBestFrom(_, _, _, _)
IndividualBestFrom(h, activeIdx, team, best) ==
    IF team = << >> THEN best
    ELSE LET oi == activeIdx[team[1]]
             nb == IF HasScore(h, oi) THEN MathMin(best, NumberOfScore(h, oi)) ELSE best
         IN  IndividualBestFrom(h, activeIdx, Tail(team), nb)

IndividualBest(h, activeIdx, team) == IndividualBestFrom(h, activeIdx, team, Infinity)

\* mutant: a lone participant is not a winner
BestListNeedsRival(h, activeIdx, participants, best) ==
    IF Len(participants) < 2 THEN << >>
    ELSE SelectSeq(participants,
                   LAMBDA aj : HasScore(h, activeIdx[aj])
                               /\ JsStrictEq(NumberOfScore(h, activeIdx[aj]), best))

BestList(h, activeIdx, participants, best) ==
    SelectSeq(participants,
              LAMBDA aj : HasScore(h, activeIdx[aj])
                          /\ JsStrictEq(NumberOfScore(h, activeIdx[aj]), best))

\* stake * (a / b)
MulRatio(stake, a, b) == (stake * a) \div b

\* mutant: the losers split one stake between them
IndividualPaySplit(row, participants, winner, stake) ==
    LET nLosers == Len(participants) - 1
    IN  [aj \in 1..Len(row) |->
            IF aj = winner /\ nLosers > 0 THEN row[aj] + stake
            ELSE IF aj \in Range(participants) THEN row[aj] - (stake \div nLosers)
            ELSE row[aj]]

\* the loop of lines 185-189: each non-winner pays stake, the winner collects it
RECURSIVE IndividualPay(_, _, _, _)
IndividualPay(row, participants, winner, stake) ==
    IF participants = << >> THEN row
    ELSE LET aj == participants[1]
             r1 == IF aj = winner THEN row
                   ELSE [row EXCEPT ![aj] = @ - stake, ![winner] = @ + stake]
         IN  IndividualPay(r1, Tail(participants), winner, stake)

\* mutant: a winner gains the stake whatever the sizes of the groups
PerWinnerGainFlat(s, stake, W, L) ==
    IF s.soloDouble /\ W = 1 /\ L >= 2 THEN stake * 2 ELSE stake

\* mutant: the doubling applies to every winning minority
PerWinnerGainAnyMinority(s, stake, W, L) ==
    LET g == IF W >= L THEN stake ELSE MulRatio(stake, L, W)
    IN  IF s.soloDouble /\ W < L THEN g * 2 ELSE g

PerWinnerGain(s, stake, W, L) ==
    LET g == IF W >= L THEN stake ELSE MulRatio(stake, L, W)
    IN  IF s.soloDouble /\ W = 1 /\ L >= 2 THEN g * 2 ELSE g

\* mutant: a loser pays the stake whatever the sizes of the groups
PerLoserLossFlat(s, stake, W, L) ==
    IF s.soloDouble /\ W = 1 /\ L >= 2 THEN stake * 2 ELSE stake

PerLoserLoss(s, stake, W, L) ==
    LET l == IF W > L THEN MulRatio(stake, W, L) ELSE stake
    IN  IF s.soloDouble /\ W = 1 /\ L >= 2 THEN l * 2 ELSE l

TeamPay(row, winners, losers, gain, loss) ==
    [aj \in 1..Len(row) |->
        row[aj] + (IF aj \in Range(winners) THEN gain ELSE 0)
                - (IF aj \in Range(losers) THEN loss ELSE 0)]

\* mutant: the carry is kept from one invocation to the next
CarryLeftOver(c) == c

\* let carry = 0, whatever an earlier invocation left
CarryOnEntry(c) == 0

\* mutant: a tie extends the carry whether carry-over is on or off
CarryAlwaysUp(s, c) == c + 1

\* mutant: a tie sets the carry to one instead of adding one
CarryTieSetsOne(s, c) == IF s.carryOver THEN 1 ELSE c

\* if (settings.carryOver) carry += 1
CarryAfterTie(s, c) == IF s.carryOver THEN c + 1 ELSE c

\* mutant: a decisive round leaves the carry as it was
CarryKept(c) == c

\* carry = 0
CarryAfterSettle(c) == c - c

\* one iteration of the for loop: the round's row and the carry after it
HoleResult(h, s, activeIdx, c) ==
    LET n == Len(activeIdx)
        par == ParOf(h.par)
        t1 == Team(h, activeIdx, "T1")
        t2 == Team(h, activeIdx, "T2")
        onlyOneTeam == (Len(t1) > 0 /\ Len(t2) = 0) \/ (Len(t2) > 0 /\ Len(t1) = 0)
        zero == ZeroRow(n)
    IN  IF onlyOneTeam
        THEN LET participants == IF Len(t1) > 0 THEN t1 ELSE t2
                 best == IndividualBest(h, activeIdx, participants)
                 bestList == BestList(h, activeIdx, participants, best)
             IN  IF ~IsFinite(best) THEN [row |-> zero, carry |-> c, stake |-> << >>]
                 ELSE IF Len(bestList) # 1
                 THEN [row |-> zero, carry |-> CarryAfterTie(s, c), stake |-> << >>]
                 ELSE LET stake0 == StakeForScore(s, c, par, best)
                      IN  [row |-> IndividualPay(zero, participants, bestList[1], stake0),
                           carry |-> CarryAfterSettle(c), stake |-> <<stake0>>]
        ELSE IF Len(t1) = 0 \/ Len(t2) = 0 THEN [row |-> zero, carry |-> c, stake |-> << >>]
        ELSE LET best1 == TeamBest(h, activeIdx, t1)
                 best2 == TeamBest(h, activeIdx, t2)
             IN  IF ~IsFinite(best1) \/ ~IsFinite(best2) THEN [row |-> zero, carry |-> c, stake |-> << >>]
                 ELSE IF best1 = best2
                 THEN [row |-> zero, carry |-> CarryAfterTie(s, c), stake |-> << >>]
                 ELSE LET winners == IF best1 < best2 THEN t1 ELSE t2
                          losers == IF best1 < best2 THEN t2 ELSE t1
                          winningBest == MathMin(best1, best2)
                          stake0 == StakeForScore(s, c, par, winningBest)
                          W == Len(winners)
                          L == Len(losers)
                      IN  [row |-> TeamPay(zero, winners, losers,
                                           PerWinnerGain(s, stake0, W, L),
                                           PerLoserLoss(s, stake0, W, L)),
                           carry |-> CarryAfterSettle(c), stake |-> <<stake0>>]

\* lines 228-229: totals[i] += v over the rows in order
RECURSIVE TotalsFrom(_, _)
TotalsFrom(acc, rows) ==
    IF rows = << >> THEN acc
    ELSE TotalsFrom([i \in 1..Len(acc) |-> acc[i] + rows[1][i]], Tail(rows))

\* mutant: the first row is left out of the totals
TotalsSkipFirst(d, n) == IF d = << >> THEN ZeroRow(n) ELSE TotalsFrom(ZeroRow(n), Tail(d))

Totals(d, n) == TotalsFrom(ZeroRow(n), d)

----------------------------------------------------------------------------
(* computeDeltas of src/unnamed/part_000 *)

ParOfPart(pRaw) == IF pRaw = << >> \/ pRaw[1] = 0 THEN DefaultPar ELSE pRaw[1]

\* s === "" ? Infinity : Number(s)
ScoreOrInfinity(h, oi) == IF HasScore(h, oi) THEN NumberOfScore(h, oi) ELSE Infinity

\* Math.min(...team.map(...)): Infinity for no argument, NaN when any argument is NaN
RECURSIVE BestOfTeamFrom(_, _, _, _)
BestOfTeamFrom(h, activeIdx, team, best) ==
    IF team = << >> THEN best
    ELSE BestOfTeamFrom(h, activeIdx, Tail(team),
                        MathMin(best, ScoreOrInfinity(h, activeIdx[team[1]])))

BestOfTeam(h, activeIdx, team) == BestOfTeamFrom(h, activeIdx, team, Infinity)

LowCompressed(h, activeIdx, participants, best) ==
    SelectSeq(participants,
              LAMBDA aj : JsStrictEq(ScoreOrInfinity(h, activeIdx[aj]), best))

IndividualPayPart(row, participants, winner, baseStake) ==
    LET losers == SelectSeq(participants, LAMBDA aj : aj # winner)
    IN  [aj \in 1..Len(row) |->
            IF aj = winner THEN row[aj] + baseStake * Len(losers)
            ELSE IF aj \in Range(losers) THEN row[aj] - baseStake
            ELSE row[aj]]

\* mutant: the winners split the losers' stakes whatever the sizes of the groups
PerWinnerPartPot(baseStake, W, L) == MulRatio(baseStake, L, W)

PerWinnerPart(baseStake, W, L) == IF L > W THEN MulRatio(baseStake, L, W) ELSE baseStake

\* mutant: a loser pays the base stake whatever the sizes of the groups
PerLoserPartFull(baseStake, W, L) == baseStake

PerLoserPart(baseStake, W, L) == IF W > L THEN MulRatio(baseStake, W, L) ELSE baseStake

\* one call of the holes.forEach callback: the round's row and the carry after it
HoleResultPart(h, s, activeIdx, c) ==
    LET n == Len(activeIdx)
        par == ParOfPart(h.par)
        t1 == Team(h, activeIdx, "T1")
        t2 == Team(h, activeIdx, "T2")
        onlyOneTeam == (Len(t1) > 0 /\ Len(t2) = 0) \/ (Len(t2) > 0 /\ Len(t1) = 0)
        zero == ZeroRow(n)
    IN  IF onlyOneTeam
        THEN LET participants == IF Len(t1) > 0 THEN t1 ELSE t2
                 best == BestOfTeam(h, activeIdx, participants)
                 lowCompressed == LowCompressed(h, activeIdx, participants, best)
             IN  IF ~IsFinite(best) THEN [row |-> zero, carry |-> c, stake |-> << >>]
                 ELSE IF Len(lowCompressed) # 1
                 THEN [row |-> zero, carry |-> CarryAfterTie(s, c), stake |-> << >>]
                 ELSE LET baseStake == StakeForScore(s, c, par, best)
                      IN  [row |-> IndividualPayPart(zero, participants, lowCompressed[1],
                                                     baseStake),
                           carry |-> CarryAfterSettle(c), stake |-> <<baseStake>>]
        ELSE IF Len(t1) = 0 \/ Len(t2) = 0 THEN [row |-> zero, carry |-> c, stake |-> << >>]
        ELSE LET best1 == BestOfTeam(h, activeIdx, t1)
                 best2 == BestOfTeam(h, activeIdx, t2)
             IN  IF ~IsFinite(best1) \/ ~IsFinite(best2) THEN [row |-> zero, carry |-> c, stake |-> << >>]
                 ELSE IF best1 = best2
                 THEN [row |-> zero, carry |-> CarryAfterTie(s, c), stake |-> << >>]
                 ELSE LET winners == IF best1 < best2 THEN t1 ELSE t2
                          losers == IF best1 < best2 THEN t2 ELSE t1
                          winningBest == MathMin(best1, best2)
                          baseStake == StakeForScore(s, c, par, winningBest)
                          W == Len(winners)
                          L == Len(losers)
                      IN  [row |-> TeamPay(zero, winners, losers,
                                           PerWinnerPart(baseStake, W, L),
                                           PerLoserPart(baseStake, W, L)),
                           carry |-> CarryAfterSettle(c), stake |-> <<baseStake>>]

----------------------------------------------------------------------------
(* Inputs *)

Name(c) == <<c>>

\* the roster the UI starts with, and one with a blank and a padded name
Rosters ==
    { <<Name("A"), Name("B"), Name("C"), Name("D"), << >> >>,
      <<Name("A"), <<" ">>, Name("C"), <<" ", "D", " ">>, Name("E")>> }

FullRoster == <<Name("A"), Name("B"), Name("C"), Name("D"), Name("E")>>

Variants == {"App", "part_000"}

\* part_000's Settings has no soloDouble: the field is held FALSE there
SettingsOf(v, wagers, carryOvers, birdieDoubles, eagleTriples) ==
    { s \in [wager : wagers, carryOver : carryOvers, soloDouble : BOOLEAN,
             birdieDouble : birdieDoubles, eagleTriple : eagleTriples] :
        v = "part_000" => ~s.soloDouble }

Wagers == {Money(w) : w \in 1..MaxWager}

\* the hole every match starts with
BlankHole ==
    [par |-> <<DefaultPar>>,
     teamPicks |-> [i \in 1..NumSlots |-> "Sit"],
     scores |-> [i \in 1..NumSlots |-> << >>]]

MkHole(p, tp, sc) == [par |-> p, teamPicks |-> tp, scores |-> sc]

\* Spec: every round drawn from a small set with ties, voids and decisive rounds
TwoSided == <<"T1", "T1", "T2", "T2", "Sit">>

AllOnOne == <<"T1", "T1", "T1", "T1", "T1">>

OneAgainst == <<"T2", "Sit", "T1", "T1", "T1">>

AllSit == <<"Sit", "Sit", "Sit", "Sit", "Sit">>

AtPar == << <<4>>, <<4>>, <<5>>, <<5>>, << >> >>

Level == << <<4>>, <<5>>, <<4>>, <<6>>, <<4>> >>

Low == << <<3>>, << >>, <<5>>, << >>, <<1>> >>

Gaps == << << >>, << >>, <<2>>, <<5>>, << >> >>

Blank == << << >>, << >>, << >>, << >>, << >> >>

SmallHoles ==
    { MkHole(<<DefaultPar>>, TwoSided, AtPar),
      MkHole(<<DefaultPar>>, TwoSided, Level),
      MkHole(<<DefaultPar>>, TwoSided, Gaps),
      MkHole(<<DefaultPar>>, AllOnOne, Level),
      MkHole(<<DefaultPar>>, AllOnOne, Low),
      MkHole(<<DefaultPar>>, AllOnOne, Gaps),
      MkHole(<<DefaultPar>>, AllOnOne, Blank),
      MkHole(<<MinPar>>, OneAgainst, AtPar),
      MkHole(<<DefaultPar>>, AllSit, Low) }

\* SpecRound: a run of tied lead-in rounds, then one round drawn from every
\* assignment of the five slots and every pattern of recorded values
LeadInHole ==
    MkHole(<<DefaultPar>>, [i \in 1..NumSlots |-> "T1"], [i \in 1..NumSlots |-> <<DefaultPar>>])

SlotEntries ==
    ({"T1", "T2"} \X {<< >>, <<DefaultPar>>, <<DefaultPar + 1>>})
        \cup ({"Sit"} \X {<< >>, <<DefaultPar>>})

RoundHoles ==
    { MkHole(<<DefaultPar>>, [i \in 1..NumSlots |-> e[i][1]], [i \in 1..NumSlots |-> e[i][2]]) :
        e \in [1..NumSlots -> SlotEntries] }


\* SpecCalls: the round lists the caller passes, over a tie and a decisive round
TieHole == MkHole(<<DefaultPar>>, AllOnOne, Level)

WinHole == MkHole(<<DefaultPar>>, TwoSided, AtPar)

GivenLists ==
    { << >>, <<TieHole>>, <<WinHole>>, <<TieHole, WinHole>>, <<WinHole, TieHole>> }

\* SpecEdit: the round lists the caller holds as it appends a round or edits a later
\* one: lists that share their first rounds and differ after them, over a tie, a
\* decisive round and a round nobody plays
VoidHole == MkHole(<<DefaultPar>>, AllSit, Low)

EditLists ==
    { << >>,
      <<TieHole>>,
      <<TieHole, WinHole>>,
      <<TieHole, TieHole>>,
      <<TieHole, TieHole, WinHole>>,
      <<TieHole, TieHole, VoidHole>>,
      <<WinHole, TieHole>>,
      <<VoidHole, TieHole>> }

\* SpecFair: rounds whose arrays are shorter than the roster, beside a round with no
\* par and a well-formed one
ShortHoles ==
    { MkHole(<<DefaultPar>>, <<"T1", "T2">>, << <<4>> >>),
      MkHole(<< >>, << >>, << >>),
      MkHole(<<DefaultPar>>, AllOnOne, << <<3>>, <<4>> >>),
      MkHole(<<DefaultPar>>, <<"T1", "T1", "T2">>, << <<3>>, <<5>>, <<4>> >>),
      MkHole(<< >>, AllOnOne, Low),
      WinHole }

\* SpecHole: one round over a roster of three slots, drawn from every par (absent,
\* zero, below MinPar, valid), every assignment and every pattern of recorded values
HoleRosters ==
    { <<Name("A"), Name("B"), Name("C")>>,
      <<Name("A"), <<" ">>, Name("C")>>,
      << << >>, Name("B"), Name("C")>> }

AllPars == {<< >>, <<0>>, <<MinPar - 1>>, <<MinPar>>, <<DefaultPar + 1>>}

AllValues == {<< >>, <<1>>, <<MinPar>>, <<DefaultPar>>}

AllHoles ==
    { MkHole(p, tp, sc) :
        p \in AllPars,
        tp \in [1..3 -> {"T1", "T2", "Sit"}],
        sc \in [1..3 -> AllValues] }

----------------------------------------------------------------------------
(* The vocabulary of the specification, read off the roster and the round   *)
(* processed last.  Slots are named by their roster index.                  *)

ActiveSlots ==
    {i \in 1..Len(players) : \E k \in 1..Len(players[i]) : players[i][k] # " "}

\* the column of the delta matrix that belongs to slot i
ColumnOf(i) == Cardinality({j \in ActiveSlots : j <= i})

DeltaOf(i) == deltas[hi][ColumnOf(i)]

GroupA == {i \in ActiveSlots : PickAt(hole, i) = "T1"}

GroupB == {i \in ActiveSlots : PickAt(hole, i) = "T2"}

Recorded(G) == {i \in G : i <= Len(hole.scores) /\ hole.scores[i] # << >>}

ValueOf(i) == hole.scores[i][1]

MinOf(S) == CHOOSE x \in S : \A y \in S : x <= y

GroupBest(G) == MinOf({ValueOf(i) : i \in Recorded(G)})

MinHolders(G) == {i \in Recorded(G) : ValueOf(i) = GroupBest(G)}

IndividualMode == (GroupA = {}) # (GroupB = {})

TeamMode == GroupA # {} /\ GroupB # {}

Populated == IF GroupA # {} THEN GroupA ELSE GroupB

IndividualDecisive ==
    IndividualMode /\ Recorded(Populated) # {} /\ Cardinality(MinHolders(Populated)) = 1

IndividualTie ==
    IndividualMode /\ Recorded(Populated) # {} /\ Cardinality(MinHolders(Populated)) >= 2

TeamDecisive ==
    /\ TeamMode
    /\ Recorded(GroupA) # {}
    /\ Recorded(GroupB) # {}
    /\ GroupBest(GroupA) # GroupBest(GroupB)

TeamTie ==
    /\ TeamMode
    /\ Recorded(GroupA) # {}
    /\ Recorded(GroupB) # {}
    /\ GroupBest(GroupA) = GroupBest(GroupB)

\* a round that cannot be decided
Undecidable ==
    \/ GroupA = {} /\ GroupB = {}
    \/ IndividualMode /\ Recorded(Populated) = {}
    \/ TeamMode /\ (Recorded(GroupA) = {} \/ Recorded(GroupB) = {})

\* the kind of the round held in hole
KindOfRound ==
    IF IndividualDecisive \/ TeamDecisive THEN "decisive"
    ELSE IF IndividualTie \/ TeamTie THEN "tie"
    ELSE IF Undecidable THEN "void"
    ELSE "other"

\* the kind of the round processed last
Decisive == kind = "decisive"

Tie == kind = "tie"

Void == kind = "void"

\* the kinds of the rounds processed since the last decisive round (or the start)
RunAfter == IF hi = 0 \/ Decisive THEN << >> ELSE Append(runIn, kind)

----------------------------------------------------------------------------
(* The state machine: one step per round, then the totals *)

InitWith(rosters, wagers, carryOvers, birdieDoubles, eagleTriples, lengths) ==
    /\ variant \in Variants
    /\ players \in rosters
    /\ settings \in SettingsOf(variant, wagers, carryOvers, birdieDoubles, eagleTriples)
    /\ nHoles \in lengths
    /\ hole = BlankHole
    /\ hi = 0
    /\ carry = 0
    /\ carryIn = 0
    /\ kind = "none"
    /\ runIn = << >>
    /\ roundStake = << >>
    /\ deltas = [r \in 1..nHoles |-> ZeroRow(Len(ActiveIdx(players)))]
    /\ totals = << >>
    /\ pc = "loop"
    /\ holes = << >>
    /\ calls = << >>
    /\ edits = << >>
    /\ carries = << >>

Advance(h, res) ==
    /\ hole' = h
    /\ carryIn' = carry
    /\ runIn' = RunAfter
    /\ carry' = res.carry
    /\ roundStake' = res.stake
    /\ deltas' = [deltas EXCEPT ![hi + 1] = res.row]
    /\ hi' = hi + 1
    /\ carries' = Append(carries, res.carry)
    /\ UNCHANGED <<variant, players, settings, nHoles, totals, pc, holes, calls, edits>>
    /\ kind' = KindOfRound'

ProcessHoleApp(h) ==
    /\ pc = "loop"
    /\ variant = "App"
    /\ hi < nHoles
    /\ Advance(h, HoleResult(h, settings, ActiveIdx(players), carry))

ProcessHolePart(h) ==
    /\ pc = "loop"
    /\ variant = "part_000"
    /\ hi < nHoles
    /\ Advance(h, HoleResultPart(h, settings, ActiveIdx(players), carry))

Finish ==
    /\ pc = "loop"
    /\ hi = nHoles
    /\ totals' = Totals(deltas, Len(ActiveIdx(players)))
    /\ pc' = "done"
    /\ UNCHANGED <<variant, players, settings, nHoles, hole, hi, carry, carryIn, kind,
                   runIn, roundStake, deltas, holes, calls, edits, carries>>

Init == InitWith(Rosters, Wagers, BOOLEAN, BOOLEAN, BOOLEAN, 0..MaxHoles)

StepApp == \E h \in SmallHoles : ProcessHoleApp(h)

StepPart == \E h \in SmallHoles : ProcessHolePart(h)

Next == StepApp \/ StepPart \/ Finish

Spec == Init /\ [][Next]_vars

\* SpecRound: the full roster and the settings the UI starts with (unit wager,
\* carryOver, birdieDouble and eagleTriple on), soloDouble on and off.  No recorded
\* value of RoundHoles is below par, so the multiplier is 1 throughout.
InitRound ==
    InitWith({FullRoster}, {Money(1)}, {TRUE}, {TRUE}, {TRUE}, 1..(MaxLeadIn + 1))

LeadInApp == hi < nHoles - 1 /\ ProcessHoleApp(LeadInHole)

LeadInPart == hi < nHoles - 1 /\ ProcessHolePart(LeadInHole)

RoundApp == hi = nHoles - 1 /\ \E h \in RoundHoles : ProcessHoleApp(h)

RoundPart == hi = nHoles - 1 /\ \E h \in RoundHoles : ProcessHolePart(h)

NextRound == LeadInApp \/ LeadInPart \/ RoundApp \/ RoundPart \/ Finish

SpecRound == InitRound /\ [][NextRound]_vars

\* SpecHole: the settings the UI starts with, one round drawn from AllHoles
InitHole == InitWith(HoleRosters, {Money(1)}, {TRUE}, {TRUE}, {TRUE}, {1})

HoleApp == hi < nHoles /\ \E h \in AllHoles : ProcessHoleApp(h)

HolePart == hi < nHoles /\ \E h \in AllHoles : ProcessHolePart(h)

NextHole == HoleApp \/ HolePart \/ Finish

SpecHole == InitHole /\ [][NextHole]_vars

\* SpecCalls: the caller (SideBetsTracker) invokes computeDeltas on the round list
\* it holds, and invokes it again after each change of the list
InitCalls ==
    /\ variant \in Variants
    /\ players \in Rosters
    /\ settings \in SettingsOf(variant, {Money(1)}, BOOLEAN, {TRUE}, {TRUE})
    /\ holes \in GivenLists
    /\ nHoles = Len(holes)
    /\ hole = BlankHole
    /\ hi = 0
    /\ carry = CarryOnEntry(0)
    /\ carryIn = 0
    /\ kind = "none"
    /\ runIn = << >>
    /\ roundStake = << >>
    /\ deltas = [r \in 1..nHoles |-> ZeroRow(Len(ActiveIdx(players)))]
    /\ totals = << >>
    /\ pc = "loop"
    /\ calls = << >>
    /\ edits = << >>
    /\ carries = << >>

\* mutant: the rounds are taken from the last to the first
IterateAppReversed == hi < Len(holes) /\ ProcessHoleApp(holes[Len(holes) - hi])

IterateApp == hi < Len(holes) /\ ProcessHoleApp(holes[hi + 1])

IteratePart == hi < Len(holes) /\ ProcessHolePart(holes[hi + 1])

\* the caller takes the result, changes its round list (setHoles) and the recompute
\* of useMemo enters computeDeltas again
Invoke(given) ==
    /\ pc = "done"
    /\ Len(calls) + 1 < MaxCalls
    /\ calls' = Append(calls, [given |-> <<holes, settings, players>>,
                               deltas |-> deltas, totals |-> totals,
                               carries |-> carries])
    /\ holes' = given
    /\ nHoles' = Len(given)
    /\ hole' = BlankHole
    /\ hi' = 0
    /\ carry' = CarryOnEntry(carry)
    /\ carryIn' = 0
    /\ kind' = "none"
    /\ runIn' = << >>
    /\ roundStake' = << >>
    /\ deltas' = [r \in 1..Len(given) |-> ZeroRow(Len(ActiveIdx(players)))]
    /\ totals' = << >>
    /\ pc' = "loop"
    /\ carries' = << >>
    /\ UNCHANGED <<variant, players, settings, edits>>

Reinvoke == \E given \in GivenLists : Invoke(given)

NextCalls == IterateApp \/ IteratePart \/ Finish \/ Reinvoke

SpecCalls == InitCalls /\ [][NextCalls]_vars

\* SpecFair: the loop over rounds with short arrays; the loop is sequential code that
\* nothing suspends, so a step that can be taken is taken
InitFair == InitWith(Rosters, {Money(1)}, {TRUE}, {TRUE}, {TRUE}, 0..MaxHoles)

ShortApp == hi < nHoles /\ \E h \in ShortHoles : ProcessHoleApp(h)

ShortPart == hi < nHoles /\ \E h \in ShortHoles : ProcessHolePart(h)

NextFair == ShortApp \/ ShortPart \/ Finish

SpecFair == InitFair /\ [][NextFair]_vars /\ WF_vars(NextFair)

\* SpecUI: the App.tsx UI.  The names are edited on the setup screen, the groups and
\* the scores of the hole shown on the HoleEntry screen; the ledger then shows
\* computeDeltas of the hole.
UIRoster == <<Name("A"), Name("B"), Name("C"), Name("D"), << >> >>

InitUI ==
    /\ InitWith({UIRoster}, {Money(1)}, {TRUE}, {TRUE}, {TRUE}, {1})
    /\ variant = "App"
    /\ ~settings.soloDouble

\* SetupScreen: next[i] = e.target.value; setPlayers(next)
EditName(i, name) ==
    /\ hi = 0
    /\ Len(edits) < MaxEdits
    /\ players' = [players EXCEPT ![i] = name]
    /\ edits' = Append(edits, [slot |-> i, field |-> "name", value |-> name])
    /\ UNCHANGED <<variant, settings, nHoles, hole, hi, carry, carryIn, kind, runIn,
                   roundStake, deltas, totals, pc, holes, calls, carries>>

\* the rows of HoleEntry: players.filter((p) => p.trim()), row i showing the i-th
\* player that is left
RowsShown == ActiveIdx(players)

\* HoleEntry, the Select of row i: tp[i] = val; onUpdate({ ...hole, teamPicks: tp })
SetPick(row, val) ==
    /\ hi = 0
    /\ Len(edits) < MaxEdits
    /\ row \in 1..Len(RowsShown)
    /\ hole' = [hole EXCEPT !.teamPicks[row] = val]
    /\ edits' = Append(edits, [slot |-> RowsShown[row], field |-> "pick", value |-> val])
    /\ UNCHANGED <<variant, players, settings, nHoles, hi, carry, carryIn, kind, runIn,
                   roundStake, deltas, totals, pc, holes, calls, carries>>

\* NumberField: "" is passed on, a number below min is replaced by min
FieldValue(typed, min) ==
    IF typed = << >> THEN << >> ELSE IF typed[1] < min THEN <<min>> ELSE typed

\* HoleEntry, the NumberField of row i (min = 1): sc[i] = v; onUpdate({ ...hole, scores: sc })
SetScore(row, typed) ==
    /\ hi = 0
    /\ Len(edits) < MaxEdits
    /\ row \in 1..Len(RowsShown)
    /\ hole' = [hole EXCEPT !.scores[row] = FieldValue(typed, 1)]
    /\ edits' = Append(edits, [slot |-> RowsShown[row], field |-> "score",
                               value |-> FieldValue(typed, 1)])
    /\ UNCHANGED <<variant, players, settings, nHoles, hi, carry, carryIn, kind, runIn,
                   roundStake, deltas, totals, pc, holes, calls, carries>>

TypedNames == {<< >>, Name("Z")}

TypedScores == {<< >>, <<0>>, <<DefaultPar>>}

EditNames == \E i \in 1..NumSlots : \E name \in TypedNames : EditName(i, name)

SetPicks == \E row \in 1..NumSlots : \E val \in {"T1", "T2", "Sit"} : SetPick(row, val)

SetScores == \E row \in 1..NumSlots : \E typed \in TypedScores : SetScore(row, typed)

\* the recompute of useMemo on the hole as edited
Recompute == hi < nHoles /\ ProcessHoleApp(hole)

NextUI == EditNames \/ SetPicks \/ SetScores \/ Recompute \/ Finish

SpecUI == InitUI /\ [][NextUI]_vars

\* SpecEdit: the caller appends a round to its list or edits a later round
\* (setHoles), and each change enters computeDeltas again on the new list
InitEdit ==
    /\ variant \in Variants
    /\ players \in Rosters
    /\ settings \in SettingsOf(variant, {Money(1)}, BOOLEAN, {TRUE}, {TRUE})
    /\ holes \in EditLists
    /\ nHoles = Len(holes)
    /\ hole = BlankHole
    /\ hi = 0
    /\ carry = CarryOnEntry(0)
    /\ carryIn = 0
    /\ kind = "none"
    /\ runIn = << >>
    /\ roundStake = << >>
    /\ deltas = [r \in 1..nHoles |-> ZeroRow(Len(ActiveIdx(players)))]
    /\ totals = << >>
    /\ pc = "loop"
    /\ calls = << >>
    /\ edits = << >>
    /\ carries = << >>

ChangeList == \E given \in EditLists : Invoke(given)

NextEdit == IterateApp \/ IteratePart \/ Finish \/ ChangeList

SpecEdit == InitEdit /\ [][NextEdit]_vars

\* SpecCarry: the loop of Spec over the roster the UI starts with, every wager and
\* every combination of the flags
InitCarry == InitWith({UIRoster}, Wagers, BOOLEAN, BOOLEAN, BOOLEAN, 0..MaxHoles)

SpecCarry == InitCarry /\ [][Next]_vars

----------------------------------------------------------------------------
(* Properties *)

RECURSIVE SumSeq(_)
SumSeq(s) == IF s = << >> THEN 0 ELSE s[1] + SumSeq(Tail(s))

Processed == hi >= 1

RowIsZero == \A j \in 1..Len(deltas[hi]) : deltas[hi][j] = 0

ColumnSum(p) == SumSeq([r \in 1..Len(deltas) |-> deltas[r][p]])

ParOfRound == hole.par[1]

WinnerGroup == IF GroupBest(GroupA) < GroupBest(GroupB) THEN GroupA ELSE GroupB

LoserGroup == IF GroupBest(GroupA) < GroupBest(GroupB) THEN GroupB ELSE GroupA

WinningBest ==
    IF IndividualMode THEN GroupBest(Populated)
    ELSE MinOf({GroupBest(GroupA), GroupBest(GroupB)})

BaseUnits == 1 + (IF settings.carryOver THEN carryIn ELSE 0)

Multiplier ==
    IF settings.eagleTriple /\ WinningBest <= ParOfRound - 2 THEN 3
    ELSE IF settings.birdieDouble /\ WinningBest = ParOfRound - 1 THEN 2
    ELSE 1

TiesIn(run) == Cardinality({k \in 1..Len(run) : run[k] = "tie"})

\* the amounts of a decisive individual-mode round at stake st
IndividualAmounts(st) ==
    LET w == CHOOSE i \in MinHolders(Populated) : TRUE
    IN  /\ \A i \in Populated \ {w} : DeltaOf(i) = 0 - st
        /\ DeltaOf(w) = st * (Cardinality(Populated) - 1)
        /\ \A i \in ActiveSlots \ Populated : DeltaOf(i) = 0

\* the amounts of a decisive team-mode round at stake st, each multiplied by f
TeamAmounts(st, f) ==
    LET W == Cardinality(WinnerGroup)
        L == Cardinality(LoserGroup)
    IN  /\ \A i \in WinnerGroup :
              /\ W >= L => DeltaOf(i) = f * st
              /\ W < L => DeltaOf(i) * W = f * st * L
        /\ \A i \in LoserGroup :
              /\ W > L => DeltaOf(i) * L = 0 - f * st * W
              /\ W <= L => DeltaOf(i) = 0 - f * st
        /\ \A i \in ActiveSlots \ (GroupA \cup GroupB) : DeltaOf(i) = 0

\* C1: every row of the delta matrix sums to 0, and the row of a round that is
\* not decisive is all zero.
C1_ZeroSum ==
    /\ \A r \in 1..Len(deltas) : SumSeq(deltas[r]) = 0
    /\ Processed /\ ~Decisive => RowIsZero

\* a two-against-three win with a carry, paying one and a half stakes to each winner
C1_Witness ==
    /\ Processed
    /\ Decisive /\ TeamMode
    /\ Cardinality(WinnerGroup) = 2
    /\ Cardinality(LoserGroup) = 3
    /\ carryIn = 1
    /\ \E i \in WinnerGroup : DeltaOf(i) * 2 = roundStake[1] * 3
    /\ ~RowIsZero

\* C2: once the totals are computed, totals[p] is the sum of column p of the delta
\* matrix for every active participant, and the totals sum to 0.
C2_Totals ==
    pc = "done" =>
        /\ Len(totals) = Cardinality(ActiveSlots)
        /\ \A p \in 1..Len(totals) : totals[p] = ColumnSum(p)
        /\ SumSeq(totals) = 0

\* three rounds, the first and the last with money moved, and a total that is not 0
C2_Witness ==
    /\ pc = "done"
    /\ nHoles = 3
    /\ \E j \in 1..Len(totals) : deltas[1][j] # 0
    /\ \E j \in 1..Len(totals) : deltas[3][j] # 0
    /\ \E j \in 1..Len(totals) : totals[j] # 0 /\ totals[j] # deltas[3][j]

\* C3: a stake is computed exactly in the decisive rounds, and it is
\* wager x (1 + carry on entry, if carryOver) x multiplier, the multiplier being 3 with
\* eagleTriple and a winning best of par - 2 or less, else 2 with birdieDouble and a
\* winning best of par - 1, else 1.
C3_Stake ==
    Processed =>
        /\ (roundStake # << >>) <=> Decisive
        /\ Decisive => roundStake = <<settings.wager * BaseUnits * Multiplier>>
        /\ Decisive /\ WinningBest >= ParOfRound =>
              roundStake = <<settings.wager * BaseUnits>>
        /\ Decisive /\ WinningBest <= ParOfRound - 2 /\ ~settings.eagleTriple =>
              roundStake = <<settings.wager * BaseUnits>>

\* an eagle after two ties with both multipliers on: the stake is wager x 3 x 3
C3_Witness ==
    /\ Processed
    /\ Decisive
    /\ settings.carryOver /\ settings.eagleTriple /\ settings.birdieDouble
    /\ settings.wager = Money(2)
    /\ carryIn = 2
    /\ WinningBest <= ParOfRound - 2
    /\ roundStake = <<Money(2) * 3 * 3>>

\* C4: with carryOver on, a decisive round that k tie rounds immediately precede
\* (the round before them decisive, or the start) has the stake
\* wager x (1 + k) x multiplier, the carry is 0 right after every decisive round, and a
\* decisive round with no tie since the last decisive round has base 1.
C4_CarryBase ==
    Processed /\ settings.carryOver /\ Decisive =>
        /\ TiesIn(runIn) = Len(runIn) =>
              roundStake = <<settings.wager * (1 + Len(runIn)) * Multiplier>>
        /\ TiesIn(runIn) = 0 => roundStake = <<settings.wager * Multiplier>>
        /\ carry = 0

\* a decisive third round after two ties
C4_Witness ==
    /\ Processed
    /\ settings.carryOver
    /\ Decisive
    /\ runIn = <<"tie", "tie">>
    /\ roundStake = <<settings.wager * 3 * Multiplier>>
    /\ carry = 0

\* C5: a tie round has an all-zero row, adds exactly 1 to the carry when carryOver is
\* on and leaves it unchanged when carryOver is off.
C5_Tie ==
    Processed /\ Tie =>
        /\ RowIsZero
        /\ roundStake = << >>
        /\ carry = carryIn + (IF settings.carryOver THEN 1 ELSE 0)

\* a second tie in a row, in individual mode
C5_Witness ==
    /\ Processed
    /\ Tie /\ IndividualMode
    /\ settings.carryOver
    /\ carryIn = 1
    /\ carry = 2

\* C6: a round that cannot be decided has an all-zero row and leaves the carry as it
\* was on entry.
C6_Void ==
    Processed /\ Void =>
        /\ RowIsZero
        /\ roundStake = << >>
        /\ carry = carryIn

\* a two-sided round with an unrecorded group, after a tie
C6_Witness ==
    /\ Processed
    /\ TeamMode
    /\ Void
    /\ settings.carryOver
    /\ carryIn = 1
    /\ carry = 1

\* C7 as stated: with carryOver on, the carry is the number of undecided (tied or
\* void) rounds since the last decisive round.
C7_Original == settings.carryOver => carry = Len(RunAfter)

\* C7 as amended: with carryOver on, the carry starts at 0, a tie adds 1, a void round
\* leaves it, a decisive round resets it to 0; it is the number of tie rounds since the
\* last decisive round.
C7_Carry ==
    settings.carryOver =>
        /\ carry = TiesIn(RunAfter)
        /\ carryIn = TiesIn(runIn)
        /\ hi = 0 => carry = 0
        /\ Processed /\ Tie => carry = carryIn + 1
        /\ Processed /\ Void => carry = carryIn
        /\ Processed /\ Decisive => carry = 0

\* a tie, a void round and a tie: the carry is 2 after three undecided rounds
C7_Witness ==
    /\ settings.carryOver
    /\ hi = 3
    /\ RunAfter = <<"tie", "void", "tie">>
    /\ carry = 2

\* the stake of the round processed last, as C3 gives it
StakeOfRound == settings.wager * BaseUnits * Multiplier

\* C8: in a decisive individual-mode round every other member of the populated group
\* gets -stake, the winner gets stake x (number of other members), and every active
\* participant outside the group gets 0.
C8_Individual ==
    Processed /\ Decisive /\ IndividualMode =>
        /\ roundStake = <<StakeOfRound>>
        /\ IndividualAmounts(StakeOfRound)

\* a winner among four, one of them unrecorded, beside a sitting participant with a
\* lower recorded value, after a tie
C8_Witness ==
    /\ Processed
    /\ Decisive /\ IndividualMode
    /\ Cardinality(Populated) = 4
    /\ Recorded(Populated) # Populated
    /\ \E i \in ActiveSlots \ Populated :
          hole.scores[i] # << >> /\ ValueOf(i) < WinningBest
    /\ carryIn = 1
    /\ \E i \in Populated : DeltaOf(i) = 3 * StakeOfRound

C10_SoloDouble ==
    Processed /\ settings.soloDouble =>
        /\ Decisive /\ TeamMode =>
              LET W == Cardinality(WinnerGroup)
                  L == Cardinality(LoserGroup)
              IN  TeamAmounts(StakeOfRound, IF W = 1 /\ L >= 2 THEN 2 ELSE 1)
        /\ Decisive /\ IndividualMode => IndividualAmounts(StakeOfRound)

\* one player beats three with soloDouble on: +6 stakes, -2 stakes each
C10_Witness ==
    /\ Processed
    /\ settings.soloDouble
    /\ Decisive /\ TeamMode
    /\ Cardinality(WinnerGroup) = 1
    /\ Cardinality(LoserGroup) = 3
    /\ \A i \in WinnerGroup : DeltaOf(i) = 6 * StakeOfRound
    /\ \A i \in LoserGroup : DeltaOf(i) = 0 - 2 * StakeOfRound

\* computeDeltas' iteration for the running variant, on round h with the carry c
ResultOf(h, c) ==
    IF variant = "App" THEN HoleResult(h, settings, ActiveIdx(players), c)
    ELSE HoleResultPart(h, settings, ActiveIdx(players), c)

\* what the round processed last left in the state
ResultHeld == [row |-> deltas[hi], carry |-> carry, stake |-> roundStake]

\* the losing side of a decisive round
LosingSide == IF IndividualMode THEN Populated \ MinHolders(Populated) ELSE LoserGroup

\* the recorded values of the round processed last, changed on the losing side only:
\* every value of the losing side absent or above the winning best, the losing group
\* of a team-mode round keeping a recorded value
LosingSideVariations ==
    LET wb == WinningBest
        side == LosingSide
        above == {v \in AllValues \cup {<<wb + 1>>, <<wb + 2>>} : v = << >> \/ v[1] > wb}
        changes == {f \in [side -> above] : TeamMode => \E i \in side : f[i] # << >>}
    IN  { [i \in 1..Len(hole.scores) |-> IF i \in side THEN f[i] ELSE hole.scores[i]] :
            f \in changes }

\* C11: a decisive round gives the same row, the same stake and the same carry
\* whatever values the losing side records, as long as each stays above the winning
\* best (and the losing group of a team-mode round keeps a recorded value); the delta
\* matrix and the totals of the two histories are then the same.
C11_LosingSide ==
    Processed /\ Decisive =>
        /\ \A sc \in LosingSideVariations :
              ResultOf([hole EXCEPT !.scores = sc], carryIn) = ResultHeld
        /\ pc = "done" => totals = deltas[hi]

\* an eagle won against a group of two, one of them one below par, the other absent
C11_Witness ==
    /\ Processed
    /\ hole.par = <<DefaultPar + 1>>
    /\ Decisive /\ TeamMode
    /\ Cardinality(LosingSide) = 2
    /\ WinningBest <= ParOfRound - 2
    /\ \E i \in LosingSide : hole.scores[i] # << >> /\ ValueOf(i) = ParOfRound - 1
    /\ \E i \in LosingSide : hole.scores[i] = << >>
    /\ roundStake = <<Money(3)>>
    /\ Cardinality(LosingSideVariations) > 4

Max(a, b) == IF a >= b THEN a ELSE b

ParScored ==
    IF hole.par = << >> \/ hole.par[1] < MinPar THEN DefaultPar ELSE hole.par[1]

MultiplierAgainst(p) ==
    IF settings.eagleTriple /\ WinningBest <= p - 2 THEN 3
    ELSE IF settings.birdieDouble /\ WinningBest = p - 1 THEN 2
    ELSE 1

\* C13: in both variants a round whose par is absent or a number below 3 is scored
\* with par 4 and a par of 3 or more is used unchanged: the stake of a decisive round
\* is wager x (1 + carry on entry) x the multiplier decided against that par.
C13_Par ==
    Processed /\ Decisive =>
        roundStake = <<settings.wager * BaseUnits * MultiplierAgainst(ParScored)>>

InactiveSlots == (1..Len(players)) \ ActiveSlots

\* the round processed last, changed at the inactive slots only
InactiveVariations ==
    LET off == InactiveSlots
    IN  { MkHole(hole.par,
                 [i \in 1..Len(hole.teamPicks) |->
                     IF i \in off THEN e[i][1] ELSE hole.teamPicks[i]],
                 [i \in 1..Len(hole.scores) |->
                     IF i \in off THEN e[i][2] ELSE hole.scores[i]]) :
            e \in [off -> {"T1", "T2", "Sit"} \X AllValues] }

\* C14: the active slots are those whose name has a character other than a blank;
\* column j of every row and of the totals belongs to the j-th active slot (the money
\* of a decisive round is in the columns of its groups' slots); the assignment and the
\* value held at an inactive slot change nothing.
C14_Columns ==
    /\ Range(ActiveIdx(players)) = ActiveSlots
    /\ \A j \in 1..Len(ActiveIdx(players)) : ColumnOf(ActiveIdx(players)[j]) = j
    /\ \A r \in 1..Len(deltas) : Len(deltas[r]) = Cardinality(ActiveSlots)
    /\ pc = "done" => Len(totals) = Cardinality(ActiveSlots) /\ totals = deltas[hi]
    /\ Processed =>
          \A h \in InactiveVariations : ResultOf(h, carryIn) = ResultHeld
    /\ Processed /\ Decisive /\ IndividualMode =>
          /\ \A i \in Populated \ MinHolders(Populated) : DeltaOf(i) = 0 - roundStake[1]
          /\ \A i \in ActiveSlots \ Populated : DeltaOf(i) = 0
    /\ Processed /\ Decisive /\ TeamMode =>
          /\ \A i \in WinnerGroup : DeltaOf(i) > 0
          /\ \A i \in LoserGroup : DeltaOf(i) < 0
          /\ \A i \in ActiveSlots \ (GroupA \cup GroupB) : DeltaOf(i) = 0

\* an inactive first slot assigned to a group with the lowest value of the round: the
\* two active slots settle between themselves, in columns 1 and 2
C14_Witness ==
    /\ Processed
    /\ InactiveSlots = {1}
    /\ hole.teamPicks[1] = "T1"
    /\ hole.scores[1] = <<1>>
    /\ Decisive /\ TeamMode
    /\ WinningBest > 1
    /\ LoserGroup = {2}
    /\ deltas[hi] = <<0 - roundStake[1], roundStake[1]>>

\* what the running invocation was given
Given == <<holes, settings, players>>

\* C15: an invocation leaves the rounds, the settings and the roster it is given as
\* they are, its carry starts at 0, and when it returns, its delta matrix and totals
\* are those of every earlier invocation on the same rounds, settings and roster,
\* whatever was invoked before or in between.
C15_Pure ==
    /\ [](/\ hi = 0 => carry = 0
          /\ pc = "done" =>
                \A k \in 1..Len(calls) :
                    calls[k].given = Given =>
                        calls[k].deltas = deltas /\ calls[k].totals = totals)
    /\ [][pc = "loop" => UNCHANGED <<holes, settings, players>>]_vars

\* the third invocation, on the round list of the first, after one on a list that
\* ended in a tie with carryOver on
C15_Witness ==
    /\ pc = "done"
    /\ Len(calls) = 2
    /\ settings.carryOver
    /\ calls[1].given = Given
    /\ calls[2].given[1] = <<WinHole, TieHole>>
    /\ holes = <<WinHole>>
    /\ \E j \in 1..Len(totals) : totals[j] # 0
    /\ calls[1].totals = totals

\* the matrix has one row per round, each with one entry per active slot, and the
\* totals, once computed, have one entry per active slot
Shaped ==
    /\ pc \in {"loop", "done"}
    /\ hi \in 0..nHoles
    /\ Len(deltas) = nHoles
    /\ \A r \in 1..nHoles : Len(deltas[r]) = Cardinality(ActiveSlots)
    /\ pc = "loop" => totals = << >>
    /\ pc = "done" => hi = nHoles /\ Len(totals) = Cardinality(ActiveSlots)

\* a step processes the round at the next index and writes that round's row only, or
\* computes the totals after the last round
InOrder ==
    \/ /\ hi < nHoles
       /\ hi' = hi + 1
       /\ pc' = "loop"
       /\ \A r \in 1..nHoles : r # hi + 1 => deltas'[r] = deltas[r]
    \/ /\ hi = nHoles
       /\ hi' = hi
       /\ pc' = "done"
       /\ deltas' = deltas

\* C16: on every input, rounds with arrays shorter than the roster included,
\* computeDeltas processes the rounds once each in index order and then returns, with
\* one row per round, activeCount entries per row and activeCount totals; it reaches
\* no other outcome.
C16_Terminates ==
    /\ []Shaped
    /\ [][InOrder]_vars
    /\ <>(pc = "done")

\* three rounds returned, the last with arrays of three and of two entries for a
\* roster of five and four active slots, one of them settled
C16_Witness ==
    /\ pc = "done"
    /\ nHoles = 3
    /\ Len(hole.teamPicks) < Len(players)
    /\ Len(hole.scores) < Len(players)
    /\ Cardinality(ActiveSlots) = 4
    /\ Len(totals) = 4
    /\ \E r \in 1..nHoles : \E j \in 1..4 : deltas[r][j] # 0

\* the members of group G with no recorded value
Unrecorded(G) == G \ Recorded(G)

\* C17: a member of a competing group with no recorded value does not enter the
\* comparison (the stake is decided by the recorded values) and stays in the
\* settlement: in a decisive individual-mode round it pays the full stake, in a
\* decisive team-mode round it gets what the other members of its group get.
C17_Unrecorded ==
    Processed /\ Decisive =>
        /\ roundStake = <<StakeOfRound>>
        /\ IndividualMode =>
              \A i \in Unrecorded(Populated) :
                  /\ DeltaOf(i) = 0 - StakeOfRound
                  /\ \E w \in Recorded(Populated) : DeltaOf(w) > 0
        /\ TeamMode =>
              /\ \A i \in Unrecorded(WinnerGroup) :
                    DeltaOf(i) > 0 /\ \A j \in WinnerGroup : DeltaOf(j) = DeltaOf(i)
              /\ \A i \in Unrecorded(LoserGroup) :
                    DeltaOf(i) < 0 /\ \A j \in LoserGroup : DeltaOf(j) = DeltaOf(i)

\* two against three after a tie, a member of each group without a recorded value
C17_Witness ==
    /\ Processed
    /\ Decisive /\ TeamMode
    /\ carryIn = 1
    /\ Cardinality(WinnerGroup) = 2
    /\ Cardinality(LoserGroup) = 3
    /\ \E i \in Unrecorded(WinnerGroup) : DeltaOf(i) * 2 = 3 * StakeOfRound
    /\ \E i \in Unrecorded(LoserGroup) : DeltaOf(i) = 0 - StakeOfRound

\* an individual-mode round whose group has one member, with a recorded value
LoneRound == IndividualMode /\ Cardinality(Populated) = 1 /\ Recorded(Populated) # {}

\* C18: an individual-mode round whose populated group has exactly one member, with a
\* recorded value, is settled as a decisive round: a stake is computed, the row is all
\* zero and the carry is 0 afterwards, whatever it was on entry.
C18_Lone ==
    Processed /\ LoneRound =>
        /\ Decisive
        /\ roundStake = <<StakeOfRound>>
        /\ RowIsZero
        /\ carry = 0

\* a lone participant after a tie: the carry of 1 is gone and no money has moved
C18_Witness ==
    /\ Processed
    /\ LoneRound
    /\ settings.carryOver
    /\ carryIn = 1
    /\ carry = 0
    /\ roundStake = <<Money(2)>>
    /\ \A r \in 1..Len(deltas) : \A j \in 1..Len(deltas[r]) : deltas[r][j] = 0

\* the entries made on HoleEntry rows that no later entry for the same player and
\* field replaces
StandingEntries ==
    {k \in 1..Len(edits) :
        /\ edits[k].field \in {"pick", "score"}
        /\ \A m \in (k + 1)..Len(edits) :
              edits[m].slot # edits[k].slot \/ edits[m].field # edits[k].field}

\* what computeDeltas reads for roster slot oi: hole.teamPicks[oi], hole.scores[oi]
ReadAt(oi, field) == IF field = "pick" THEN PickAt(hole, oi) ELSE hole.scores[oi]

\* C19: whatever names and entries were edited, the group or score entered last on
\* the row shown for a player is held at that player's roster slot index, where
\* computeDeltas reads it.
C19_StoredAtSlot ==
    \A k \in StandingEntries : ReadAt(edits[k].slot, edits[k].field) = edits[k].value

\* a round both variants are meant for: a par of 3 or more, soloDouble off
CommonInput == ~settings.soloDouble /\ hole.par # << >> /\ hole.par[1] >= MinPar

\* C20: on a round with a par of 3 or more and recorded or empty values, with
\* soloDouble off, the iteration of App.tsx and the iteration of part_000 give the
\* same row, the same stake and the same carry from every carry on entry, and from
\* the carry the round was entered with that is what the running variant left in the
\* state; so the two agree round after round.
C20_Agree ==
    Processed /\ CommonInput =>
        /\ HoleResult(hole, settings, ActiveIdx(players), carryIn) = ResultHeld
        /\ HoleResultPart(hole, settings, ActiveIdx(players), carryIn) = ResultHeld
        /\ \A c \in 0..MaxHoles :
              HoleResult(hole, settings, ActiveIdx(players), c)
                  = HoleResultPart(hole, settings, ActiveIdx(players), c)

\* part_000 settles two against one at par 5 with an eagle: +3 each, -6
C20_Witness ==
    /\ Processed
    /\ variant = "part_000"
    /\ hole.par = <<DefaultPar + 1>>
    /\ Decisive /\ TeamMode
    /\ Cardinality(WinnerGroup) = 2
    /\ Cardinality(LoserGroup) = 1
    /\ roundStake = <<Money(3)>>
    /\ \A i \in WinnerGroup : DeltaOf(i) = Money(3)
    /\ \A i \in LoserGroup : DeltaOf(i) = 0 - Money(6)
    /\ HoleResult(hole, settings, ActiveIdx(players), carryIn).row = deltas[hi]

\* the round lists g1 and g2 share their first k rounds
SharedPrefix(g1, g2, k) ==
    k <= Len(g1) /\ k <= Len(g2) /\ SubSeq(g1, 1, k) = SubSeq(g2, 1, k)

\* C21: for every earlier invocation on the same settings and roster whose round
\* list shares its first k rounds with the list of the running one, the first k rows
\* of the two delta matrices and the two carry values after round k are the same,
\* whatever the two lists hold after round k; so appending a round or editing a later
\* one changes no earlier row.
C21_Past ==
    \A c \in 1..Len(calls) :
        \A k \in 1..hi :
            /\ calls[c].given[2] = settings
            /\ calls[c].given[3] = players
            /\ SharedPrefix(calls[c].given[1], holes, k)
            => /\ \A r \in 1..k : calls[c].deltas[r] = deltas[r]
               /\ calls[c].carries[k] = carries[k]

\* two ties and a win returned after two ties and a void round: the two lists share
\* two rounds with the carry 2 after them, and differ in the third row
C21_Witness ==
    /\ pc = "done"
    /\ Len(calls) >= 1
    /\ settings.carryOver
    /\ holes = <<TieHole, TieHole, WinHole>>
    /\ calls[Len(calls)].given[1] = <<TieHole, TieHole, VoidHole>>
    /\ carries = <<1, 2, 0>>
    /\ calls[Len(calls)].carries = <<1, 2, 2>>
    /\ deltas[3] # calls[Len(calls)].deltas[3]
    /\ deltas[1] = calls[Len(calls)].deltas[1]
    /\ deltas[2] = calls[Len(calls)].deltas[2]

\* C22: in every state of the loop the carry is a whole number from 0 to the number
\* of rounds processed; with carryOver off it is 0 throughout, the stake of every decisive round
\* is wager x multiplier, and the row of a round is the row the round gives from
\* every carry on entry: it depends on the round, the settings and the roster only.
C22_CarryRange ==
    /\ carry \in 0..hi
    /\ carryIn \in 0..hi
    /\ ~settings.carryOver =>
          /\ carry = 0
          /\ carryIn = 0
          /\ Processed /\ Decisive => roundStake = <<settings.wager * Multiplier>>
          /\ Processed => \A c \in 0..MaxHoles : ResultOf(hole, c).row = deltas[hi]

\* carryOver off: an eagle in the third round after two ties is paid at wager x 3,
\* with the carry still 0
C22_Witness ==
    /\ Processed
    /\ ~settings.carryOver
    /\ settings.eagleTriple
    /\ hi = 3
    /\ runIn = <<"tie", "tie">>
    /\ Decisive
    /\ WinningBest <= ParOfRound - 2
    /\ carryIn = 0
    /\ roundStake = <<settings.wager * 3>>
    /\ ~RowIsZero

====
